---- MODULE Spec2Model ----
(***************************************************************************)
(* Model of patch.rs: the ADT class-file patcher.  main extracts           *)
(* AdtConstants.class from the input jar, find_5_offset walks the constant *)
(* pool for the UTF-8 constant "1.5", replace_5_as_7 overwrites one byte,  *)
(* update_jar repacks and recursively_remove_file cleans up.               *)
(*                                                                         *)
(* A file is a sequence of bytes (0..255); reader positions are 0-based.   *)
(***************************************************************************)
EXTENDS Integers, Sequences, FiniteSets, TLC

VARIABLES
    input_jar,    \* bytes of AdtConstants.class inside the input jar
    output_jar,   \* [present, bytes]: the class inside the output jar
    file,         \* bytes of the extracted class file in the temp directory
    tmpdir,       \* TRUE while the temp directory of extract_jar exists
    pc,           \* position of main
    pos,          \* the reader's file position in find_5_offset
    remaining,    \* iterations of `pool_size.times` still to run
    raw_count,    \* the u16 read at bytes 8-9 (before the subtraction)
    result,       \* the Result of find_5_offset
    tagLog,       \* the tag bytes read by this scan: <<[at, tag, next]>>
    patchIO,      \* what the C library did in replace_5_as_7
    steps,        \* which steps of main ran in this run
    run,          \* number of the current run of the program
    history       \* one record per completed earlier run

vars == <<input_jar, output_jar, file, tmpdir, pc, pos, remaining, raw_count,
          result, tagLog, patchIO, steps, run, history>>

-----------------------------------------------------------------------------
(* Bounds of the model.                                                    *)

MaxEntries == 2     \* constant-pool chunks in a generated file
MaxCount == 3       \* largest small declared count (65535 is always drawn)
MaxCut == 5         \* bytes cut off the end of a generated file
MaxRuns == 2        \* runs of the program (the second on the patched jar)

-----------------------------------------------------------------------------
(* Program constants.                                                      *)

U16 == 65536
NewByte == 55
Magic == <<202, 254, 186, 190>>
Target == <<49, 46, 53>>

-----------------------------------------------------------------------------
(* The reader (core::io over a C FILE).                                    *)

Min(a, b) == IF a < b THEN a ELSE b

\* reader.read_byte(): fgetc, -1 at end of file
ByteAt(f, p) == IF p < Len(f) THEN f[p + 1] ELSE -1

\* read_u8: read_byte() as u8, so 255 at end of file
ReadU8(f, p) == IF p < Len(f) THEN f[p + 1] ELSE 255

\* the position after reading n bytes at p (a read stops at end of file, and
\* a position beyond the end, reached by a seek, stays where it is)
AdvanceRead(f, p, n) == IF p >= Len(f) THEN p ELSE Min(p + n, Len(f))

RECURSIVE ReadBE(_, _, _)
\* read_be_u16 / read_be_u32: n bytes, most significant first
ReadBE(f, p, n) ==
    IF n = 0 THEN 0
    ELSE ReadBE(f, p, n - 1) * 256 + ReadU8(f, p + n - 1)

\* reader.read_bytes(n): the bytes actually present
ReadBytes(f, p, n) ==
    IF p >= Len(f) THEN <<>> ELSE SubSeq(f, p + 1, Min(p + n, Len(f)))

\* skip(count): reader.seek(count, SeekCur); seeking beyond the end succeeds
Skip(p, count) == p + count

-----------------------------------------------------------------------------
(* find_5_offset                                                           *)

NoResult == [kind |-> "None", offset |-> 0]
Ok(off) == [kind |-> "Ok", offset |-> off]
Err(k) == [kind |-> k, offset |-> 0]

\* reader.read_be_u32() != 0xcafebabe, compared byte by byte
MagicOk(f) == <<ReadU8(f, 0), ReadU8(f, 1), ReadU8(f, 2), ReadU8(f, 3)>> = Magic

\* pool_size = read_be_u16() - 1, in u16 arithmetic
PoolSize(raw) == (raw - 1 + U16) % U16

\* variant: a tag outside the catalogue is stepped over, not rejected
SkipLen_lenient(tag) ==
    CASE tag \in {3, 4, 9, 10, 11, 12} -> 4
      [] tag \in {5, 6} -> 8
      [] tag \in {7, 8} -> 2
      [] OTHER -> 0

\* the payload skipped after a tag of fixed size; -1 for the `_` arm
SkipLen(tag) ==
    CASE tag \in {3, 4, 9, 10, 11, 12} -> 4
      [] tag \in {5, 6} -> 8
      [] tag \in {7, 8} -> 2
      [] OTHER -> -1

\* `length != 3`: the entry is skipped without reading its content
LengthDiffers(length) == length # 3

\* `bytes == ~[0x31, 0x2e, 0x35]`
IsTarget(bytes) == bytes = Target

\* variant: the offset of the start of the content
MatchOffset_start(tell) == tell - 3

\* Ok(reader.tell() - 1)
MatchOffset(tell) == tell - 1

\* variant: the content of the entry is not skipped
Utf8Skip_none(length) == 0

\* how far a UTF-8 entry of another length is skipped: skip(length as int)
Utf8Skip(length) == length

\* One iteration of the loop body at position p: [ret, next, tag].
ScanStep(f, p) ==
    LET tag == ByteAt(f, p)
        p1 == AdvanceRead(f, p, 1)
        length == ReadBE(f, p1, 2)
        p2 == AdvanceRead(f, p1, 2)
        bytes == ReadBytes(f, p2, length)
        p3 == AdvanceRead(f, p2, length)
    IN  IF tag = 1
        THEN IF LengthDiffers(length)
             THEN [ret |-> NoResult, next |-> Skip(p2, Utf8Skip(length)), tag |-> tag]
             ELSE IF IsTarget(bytes)
                  THEN [ret |-> Ok(MatchOffset(p3)), next |-> p3, tag |-> tag]
                  ELSE [ret |-> NoResult, next |-> p3, tag |-> tag]
        ELSE IF SkipLen(tag) >= 0
             THEN [ret |-> NoResult, next |-> Skip(p1, SkipLen(tag)), tag |-> tag]
             ELSE [ret |-> Err("Malformed"), next |-> p1, tag |-> tag]

-----------------------------------------------------------------------------
(* replace_5_as_7 and main                                                 *)

RECURSIVE Zeros(_)
Zeros(n) == IF n <= 0 THEN <<>> ELSE <<0>> \o Zeros(n - 1)

\* variant: the file is opened "w+", which truncates it
WriteAt_truncating(f, off, b) == Zeros(off) \o <<b>>

\* fopen "r+", seek(offset, SeekSet), write_u8: one byte is stored at offset;
\* the file is not truncated, and a position beyond its end extends it
WriteAt(f, off, b) ==
    IF off < Len(f) THEN [f EXCEPT ![off + 1] = b]
    ELSE f \o Zeros(off - Len(f)) \o <<b>>

\* What the C library can do in replace_5_as_7:
\*   ok           the byte reaches the file
\*   fopen_null   fopen returned NULL: the seek on the null FILE* traps or
\*                fails its assertion, and the task dies either way
\*   fwrite_short fwrite reported a short count: Writer.write fails the task
\*   flush_error  the buffered byte is lost when the FILE is closed
PatchOutcomes == {"ok", "fopen_null", "fwrite_short", "flush_error"}

\* variant: the byte never reaches the file
Patched_lost(f, off, io) == f

\* the file after replace_5_as_7
Patched(f, off, io) == IF io = "ok" THEN WriteAt(f, off, NewByte) ELSE f

\* main after replace_5_as_7 returned (), or the failed task
AfterPatch(io) ==
    IF io \in {"fopen_null", "fwrite_short"} THEN "failed" ELSE "update_jar"

\* variant: only the magic error makes main return
AfterScan_ignoreErr(res) ==
    IF res.kind = "NotClass" THEN "returned" ELSE "replace_5_as_7"

\* main's match on the Result of find_5_offset
AfterScan(res) == IF res.kind = "Ok" THEN "replace_5_as_7" ELSE "returned"

-----------------------------------------------------------------------------
(* The class files the model starts from.                                  *)

Utf8(content) == <<1, 0, Len(content)>> \o content

\* The class-file format (JVM specification, section 4.4): the payload that
\* follows each tag, and the index slots an entry takes.
JvmPayload(tag) ==
    CASE tag \in {3, 4, 9, 10, 11, 12} -> 4
      [] tag \in {5, 6} -> 8
      [] tag \in {7, 8} -> 2
      [] OTHER -> -1

JvmSlots(tag) == IF tag \in {5, 6} THEN 2 ELSE 1

Fixed(tag) ==
    <<tag>> \o (CASE JvmPayload(tag) = 4 -> <<0, 1, 0, 2>>
                  [] JvmPayload(tag) = 8 -> <<0, 0, 0, 0, 0, 0, 0, 1>>
                  [] JvmPayload(tag) = 2 -> <<0, 1>>
                  [] OTHER -> <<>>)

OtherUtf8 == {Utf8(<<49, 46, 53, 48>>), Utf8(<<49, 46, 55>>), Utf8(<<>>)}

Catalogue ==
    {Utf8(Target)} \cup OtherUtf8
    \cup {Fixed(3), Fixed(5), Fixed(8), Fixed(12)}
    \cup {<<0>>, <<2>>, <<13>>}

RECURSIVE Flatten(_)
Flatten(ss) == IF ss = <<>> THEN <<>> ELSE Head(ss) \o Flatten(Tail(ss))

Header(count) == Magic \o <<0, 0, 0, 49>> \o <<count \div 256, count % 256>>

Tails == {<<>>, <<0, 33>>}

Cut(f, k) == SubSeq(f, 1, IF k > Len(f) THEN 0 ELSE Len(f) - k)

\* files of up to MaxEntries chunks under any declared count, possibly cut
GeneralFiles ==
    { Cut(Header(c) \o Flatten(es) \o t, k) :
        c \in (0..MaxCount) \cup {U16 - 1},
        es \in UNION {[1..n -> Catalogue] : n \in 0..MaxEntries},
        t \in Tails,
        k \in 0..MaxCut }

\* well-formed pools with one entry of each skip category in any order; the
\* declared count is the number of index slots + 1 (a Long/Double takes two)
ValidFiles ==
    { Header(6) \o Flatten([i \in 1..4 |-> <<Fixed(t4), Fixed(t8), Fixed(t2), u>>[o[i]]])
        \o <<0, 33>> :
        t4 \in {3, 4, 9, 10, 11, 12}, t8 \in {5, 6}, t2 \in {7, 8}, u \in OtherUtf8,
        o \in {q \in [1..4 -> 1..4] : \A i, j \in 1..4 : q[i] = q[j] => i = j} }

\* files that are no class files
OtherFiles == {<<>>, <<202, 254>>, <<80, 75, 3, 4, 0, 0, 0, 0, 0, 1>>}

Files == GeneralFiles \cup ValidFiles \cup OtherFiles

-----------------------------------------------------------------------------
(* The state machine.                                                      *)

NoOutput == [present |-> FALSE, bytes |-> <<>>]

Fresh ==
    /\ file = <<>>
    /\ tmpdir = FALSE
    /\ pc = "fetch_matches"
    /\ pos = 0
    /\ remaining = 0
    /\ raw_count = 0
    /\ result = NoResult
    /\ tagLog = <<>>
    /\ patchIO = "none"
    /\ steps = <<>>

Init ==
    /\ input_jar \in Files
    /\ output_jar = NoOutput
    /\ run = 1
    /\ history = <<>>
    /\ Fresh

\* fetch_matches: None on bad options or -h, and main returns
fetch_matches ==
    /\ pc = "fetch_matches"
    /\ \E some \in BOOLEAN : pc' = IF some THEN "extract_jar" ELSE "returned"
    /\ UNCHANGED <<input_jar, output_jar, file, tmpdir, pos, remaining,
                   raw_count, result, tagLog, patchIO, steps, run, history>>

\* extract_jar: mkdtemp and `jar xf`; either can fail the task
extract_jar ==
    /\ pc = "extract_jar"
    /\ \E ok \in BOOLEAN :
         /\ pc' = IF ok THEN "find_5_offset" ELSE "failed"
         /\ file' = IF ok THEN input_jar ELSE file
         /\ tmpdir' = ok
    /\ UNCHANGED <<input_jar, output_jar, pos, remaining, raw_count, result,
                   tagLog, patchIO, steps, run, history>>

\* find_5_offset up to the loop: open, magic, skip(4), pool_size
find_5_offset_open ==
    /\ pc = "find_5_offset"
    /\ \E opened \in BOOLEAN :
         IF ~opened
         THEN /\ pc' = "failed"
              /\ UNCHANGED <<pos, remaining, raw_count, result, steps>>
         ELSE /\ steps' = Append(steps, "scan")
              /\ IF ~MagicOk(file)
                 THEN /\ result' = Err("NotClass")
                      /\ pc' = "match_result"
                      /\ pos' = AdvanceRead(file, 0, 4)
                      /\ UNCHANGED <<remaining, raw_count>>
                 ELSE /\ raw_count' = ReadBE(file, 8, 2)
                      /\ remaining' = PoolSize(ReadBE(file, 8, 2))
                      /\ pos' = AdvanceRead(file, Skip(4, 4), 2)
                      /\ pc' = "scan_loop"
                      /\ UNCHANGED result
    /\ UNCHANGED <<input_jar, output_jar, file, tmpdir, tagLog, patchIO,
                   run, history>>

\* one iteration of `for pool_size.times`
find_5_offset_entry ==
    /\ pc = "scan_loop"
    /\ remaining > 0
    /\ LET s == ScanStep(file, pos)
       IN  /\ tagLog' = Append(tagLog, [at |-> pos, tag |-> s.tag, next |-> s.next])
           /\ pos' = s.next
           /\ remaining' = remaining - 1
           /\ result' = s.ret
           /\ pc' = IF s.ret = NoResult THEN "scan_loop" ELSE "match_result"
    /\ UNCHANGED <<input_jar, output_jar, file, tmpdir, raw_count, patchIO,
                   steps, run, history>>

\* the loop is over: Err("Cannot find the constant '1.5'.")
find_5_offset_end ==
    /\ pc = "scan_loop"
    /\ remaining = 0
    /\ result' = Err("NotFound")
    /\ pc' = "match_result"
    /\ UNCHANGED <<input_jar, output_jar, file, tmpdir, pos, remaining,
                   raw_count, tagLog, patchIO, steps, run, history>>

\* main: Ok(offset) => replace_5_as_7, Err(msg) => println and return
main_match ==
    /\ pc = "match_result"
    /\ pc' = AfterScan(result)
    /\ UNCHANGED <<input_jar, output_jar, file, tmpdir, pos, remaining,
                   raw_count, result, tagLog, patchIO, steps, run, history>>

\* replace_5_as_7(&class_path, offset)
replace_5_as_7 ==
    /\ pc = "replace_5_as_7"
    /\ \E io \in PatchOutcomes :
         /\ patchIO' = io
         /\ file' = Patched(file, result.offset, io)
         /\ pc' = AfterPatch(io)
    /\ steps' = Append(steps, "patch")
    /\ UNCHANGED <<input_jar, output_jar, tmpdir, pos, remaining, raw_count,
                   result, tagLog, run, history>>

\* update_jar: copy the input jar and `jar uf` the class file into the copy
update_jar ==
    /\ pc = "update_jar"
    /\ \E ok \in BOOLEAN :
         /\ pc' = IF ok THEN "recursively_remove_file" ELSE "failed"
         /\ output_jar' = IF ok THEN [present |-> TRUE, bytes |-> file]
                           ELSE output_jar
    /\ steps' = Append(steps, "repack")
    /\ UNCHANGED <<input_jar, file, tmpdir, pos, remaining, raw_count, result,
                   tagLog, patchIO, run, history>>

\* recursively_remove_file(&class_dir) and the closing message
recursively_remove_file ==
    /\ pc = "recursively_remove_file"
    /\ tmpdir' = FALSE
    /\ pc' = "done"
    /\ steps' = Append(steps, "cleanup")
    /\ UNCHANGED <<input_jar, output_jar, file, pos, remaining, raw_count,
                   result, tagLog, patchIO, run, history>>

\* "You may now want to replace <input> by <output>": the program is run
\* again on the jar it produced
Rerun ==
    /\ pc = "done"
    /\ run < MaxRuns
    /\ output_jar.present
    /\ history' = Append(history, [result |-> result, patchIO |-> patchIO,
                                   input |-> input_jar])
    /\ input_jar' = output_jar.bytes
    /\ output_jar' = NoOutput
    /\ run' = run + 1
    /\ file' = <<>>
    /\ tmpdir' = FALSE
    /\ pc' = "fetch_matches"
    /\ pos' = 0
    /\ remaining' = 0
    /\ raw_count' = 0
    /\ result' = NoResult
    /\ tagLog' = <<>>
    /\ patchIO' = "none"
    /\ steps' = <<>>

Next ==
    \/ fetch_matches
    \/ extract_jar
    \/ find_5_offset_open
    \/ find_5_offset_entry
    \/ find_5_offset_end
    \/ main_match
    \/ replace_5_as_7
    \/ update_jar
    \/ recursively_remove_file
    \/ Rerun

Spec == Init /\ [][Next]_vars

TypeOK ==
    /\ pc \in {"fetch_matches", "extract_jar", "find_5_offset", "scan_loop",
               "match_result", "replace_5_as_7", "update_jar",
               "recursively_remove_file", "done", "returned", "failed"}
    /\ result.kind \in {"None", "Ok", "NotClass", "Malformed", "NotFound"}
    /\ remaining \in 0..(U16 - 1)

-----------------------------------------------------------------------------
(* The class-file format as a reference: a walk over n entries (or, when   *)
(* wide, n index slots) from position p that reads nothing beyond the end. *)

RECURSIVE FormatWalk(_, _, _, _, _)
FormatWalk(f, p, n, wide, seen) ==
    IF n <= 0
    THEN [status |-> IF n = 0 THEN "complete" ELSE "overrun", end |-> p, tags |-> seen]
    ELSE LET tag == ByteAt(f, p)
             stop(st) == [status |-> st, end |-> p, tags |-> seen]
         IN  IF tag = -1 THEN stop("truncated")
             ELSE IF tag = 1
             THEN IF p + 3 > Len(f) THEN stop("truncated")
                  ELSE LET len == f[p + 2] * 256 + f[p + 3]
                       IN  IF p + 3 + len > Len(f) THEN stop("truncated")
                           ELSE IF SubSeq(f, p + 4, p + 3 + len) = Target
                           THEN stop("match")
                           ELSE FormatWalk(f, p + 3 + len, n - 1, wide, seen \cup {tag})
             ELSE IF JvmPayload(tag) < 0 THEN stop("badtag")
             ELSE IF p + 1 + JvmPayload(tag) > Len(f) THEN stop("truncated")
             ELSE FormatWalk(f, p + 1 + JvmPayload(tag),
                             n - (IF wide THEN JvmSlots(tag) ELSE 1), wide,
                             seen \cup {tag})

HasHeader(f) == MagicOk(f) /\ Len(f) >= 10
Declared(f) == f[9] * 256 + f[10]

Recognized == {1, 3, 4, 5, 6, 7, 8, 9, 10, 11, 12}
ScanReturned == result # NoResult
ScanErr == result.kind \in {"NotClass", "Malformed", "NotFound"}
LastTag == tagLog[Len(tagLog)]

\* the six bytes of a UTF-8 entry holding "1.5" stand at position p of f
EntryAt(f, p) == p + 6 <= Len(f) /\ SubSeq(f, p + 1, p + 6) = Utf8(Target)

-----------------------------------------------------------------------------
(* The claims.                                                             *)

\* C1: when the scan reads the tag of a UTF-8 entry of declared length 3
\* holding "1.5", find_5_offset returns Ok(offset) with offset the position
\* of the entry's third content byte (content start + 2); and whenever it
\* returns Ok(offset), the file byte at offset is 0x35, inside such an entry.
C1_OffsetIsThe5 ==
    /\ \A i \in 1..Len(tagLog) :
         EntryAt(input_jar, tagLog[i].at) =>
            /\ i = Len(tagLog)
            /\ result = Ok(tagLog[i].at + 5)
    /\ result.kind = "Ok" =>
         /\ tagLog # <<>>
         /\ EntryAt(input_jar, LastTag.at)
         /\ result.offset = LastTag.at + 3 + 2
         /\ ByteAt(input_jar, result.offset) = 53

C1_Witness ==
    /\ pc = "match_result"
    /\ result.kind = "Ok"
    /\ Len(tagLog) >= 2
    /\ input_jar[result.offset + 1] = 53

\* C2: after a successful scan and replace_5_as_7, the file has the length
\* it had and differs from the pre-patch file at no position other than
\* offset; when the C library stored the byte, the byte at offset is 0x37
\* where it was 0x35, so exactly one byte is altered.
C2_OneByteAltered ==
    patchIO # "none" =>
        /\ Len(file) = Len(input_jar)
        /\ \A i \in 1..Len(input_jar) :
             i # result.offset + 1 => file[i] = input_jar[i]
        /\ patchIO = "ok" =>
             /\ file[result.offset + 1] = 55
             /\ input_jar[result.offset + 1] = 53
             /\ Cardinality({i \in 1..Len(file) : file[i] # input_jar[i]}) = 1

C2_Witness ==
    /\ pc = "update_jar"
    /\ patchIO = "ok"
    /\ file # input_jar
    /\ result.offset + 1 < Len(file)

\* C3: when find_5_offset returns an error, no byte of the extracted file
\* is written and neither the patch nor update_jar nor the cleanup runs;
\* the patch runs only after a successful scan, update_jar only after the
\* patch, the cleanup only after update_jar.
C3_AbortBeforeMutation ==
    /\ ScanErr =>
         /\ file = input_jar
         /\ steps = <<"scan">>
         /\ patchIO = "none"
         /\ ~output_jar.present
         /\ pc \in {"match_result", "returned"}
    /\ \E n \in 0..4 : steps = SubSeq(<<"scan", "patch", "repack", "cleanup">>, 1, n)
    /\ Len(steps) >= 2 => result.kind = "Ok"

C3_Witness ==
    /\ pc = "returned"
    /\ result.kind = "Malformed"
    /\ tmpdir
    /\ file = input_jar

\* C4: for a valid constant pool (declared count = index slots + 1, an
\* 8-byte entry taking two slots) with entries of every skip category and
\* no "1.5" entry, find_5_offset reads no tag beyond the end of the pool
\* and returns ConstantNotFound.
C4_ValidPoolScanned ==
    LET w == FormatWalk(input_jar, 10, Declared(input_jar) - 1, TRUE, {})
    IN  (/\ HasHeader(input_jar)
         /\ Declared(input_jar) >= 1
         /\ w.status = "complete"
         /\ w.tags \cap {3, 4, 9, 10, 11, 12} # {}
         /\ w.tags \cap {5, 6} # {}
         /\ w.tags \cap {7, 8} # {}
         /\ 1 \in w.tags)
        => /\ \A i \in 1..Len(tagLog) : tagLog[i].at < w.end
           /\ ScanReturned => result.kind = "NotFound"

\* C5: find_5_offset returns success only for a tag-1 entry of declared
\* length exactly 3 whose content is exactly 0x31 0x2E 0x35; a UTF-8 entry
\* of another declared length is skipped by exactly that length: the next
\* tag is read right after its content, and it is never the match.
C5_ExactMatchOnly ==
    /\ result.kind = "Ok" =>
         /\ LastTag.tag = 1
         /\ ReadBE(input_jar, LastTag.at + 1, 2) = 3
         /\ ReadBytes(input_jar, LastTag.at + 3, 3) = <<49, 46, 53>>
    /\ \A i \in 1..Len(tagLog) :
         LET e == tagLog[i]
             len == ReadBE(input_jar, e.at + 1, 2)
         IN  (e.tag = 1 /\ e.at + 3 <= Len(input_jar) /\ len # 3) =>
                /\ e.next = e.at + 1 + 2 + len
                /\ i < Len(tagLog) => tagLog[i + 1].at = e.at + 3 + len
                /\ i = Len(tagLog) => result.kind # "Ok"

C5_Witness ==
    /\ pc = "match_result"
    /\ Len(tagLog) >= 2
    /\ tagLog[1].tag = 1
    /\ ReadBytes(input_jar, tagLog[1].at + 1, 6) = <<0, 4, 49, 46, 53, 48>>
    /\ tagLog[2].at = tagLog[1].at + 7

\* C6: when a byte read as an entry tag is outside the recognized set,
\* find_5_offset returns the malformed-constant-pool error at that point
\* and reads no further entry: never success, never ConstantNotFound.
C6_UnrecognizedTag ==
    \A i \in 1..Len(tagLog) :
        tagLog[i].tag \notin Recognized =>
            /\ i = Len(tagLog)
            /\ result = Err("Malformed")
            /\ pc \in {"match_result", "returned"}

C6_Witness ==
    /\ pc = "returned"
    /\ Len(tagLog) >= 2
    /\ LastTag.tag \in {0, 2, 13}
    /\ result.kind = "Malformed"

\* C7: for a stream with a valid magic that ends before all raw_count - 1
\* declared entries are completely present (no entry before the end is
\* unrecognized or a match), find_5_offset returns the malformed-pool
\* error, not ConstantNotFound.
C7_TruncatedIsMalformed ==
    (/\ HasHeader(input_jar)
     /\ Declared(input_jar) >= 1
     /\ FormatWalk(input_jar, 10, Declared(input_jar) - 1, FALSE, {}).status
            = "truncated"
     /\ ScanReturned)
    => result.kind = "Malformed"

Before == history[Len(history)]
RescanOfPatched ==
    /\ history # <<>>
    /\ Before.result.kind = "Ok"
    /\ Before.patchIO = "ok"
    /\ ScanReturned

\* C8 (as stated): after the patch at the returned offset, find_5_offset on
\* the patched file (of declared count >= 1, no entry of it cut short or of
\* unrecognized tag) returns ConstantNotFound.
C8_RescanNotFound ==
    (/\ RescanOfPatched
     /\ raw_count >= 1
     /\ FormatWalk(input_jar, 10, raw_count - 1, FALSE, {}).status
            \notin {"truncated", "badtag"})
    => result.kind = "NotFound"

\* C8 (amended): after the patch at the returned offset, find_5_offset on
\* the patched file never returns that offset again (the entry now holds
\* "1.7"); a success is a later "1.5" entry, and the result is
\* ConstantNotFound whenever all declared entries of the patched file are
\* present, recognized and none holds "1.5".
C8_RescanSkipsPatched ==
    RescanOfPatched =>
        /\ ByteAt(input_jar, Before.result.offset) = 55
        /\ Len(input_jar) = Len(Before.input)
        /\ \A i \in 1..Len(input_jar) :
             i # Before.result.offset + 1 => input_jar[i] = Before.input[i]
        /\ result.kind = "Ok" => result.offset > Before.result.offset
        /\ FormatWalk(input_jar, 10, PoolSize(Declared(input_jar)), FALSE, {}).status
               = "complete" => result.kind = "NotFound"

C8_Witness ==
    /\ RescanOfPatched
    /\ pc = "returned"
    /\ result.kind = "NotFound"
    /\ Len(tagLog) >= 2
    /\ \E i \in 1..Len(tagLog) : tagLog[i].at + 5 = Before.result.offset

\* C9: when the patch step cannot open the file or the write does not
\* complete, no byte of the file is changed and main does not go on to
\* run update_jar and the cleanup.
C9_PatchFailureAborts ==
    (/\ patchIO \in {"fopen_null", "fwrite_short", "flush_error"}
     /\ raw_count >= 1) =>
        /\ file = input_jar
        /\ pc \notin {"recursively_remove_file", "done"}
        /\ Len(steps) <= 2

\* C10: find_5_offset reads at most raw_count - 1 tag bytes, exactly that
\* many when it returns ConstantNotFound; for raw_count 0 and 1 it reads no
\* tag byte and returns ConstantNotFound.
C10_TagReadsBounded ==
    (ScanReturned /\ result.kind # "NotClass") =>
        /\ raw_count >= 1 => Len(tagLog) <= raw_count - 1
        /\ (raw_count >= 1 /\ result.kind = "NotFound") => Len(tagLog) = raw_count - 1
        /\ raw_count \in {0, 1} => (tagLog = <<>> /\ result.kind = "NotFound")

====
